---------------------------- MODULE Spec2Model ----------------------------
(***************************************************************************)
(* A model of the EventHub chatbot backend (raevmood/grad-backend):        *)
(*   memory.py          EventHubMemory    bounded, persisted message log   *)
(*   llm_provider.py    LLMManager        primary/backup generation        *)
(*   mcp_client.py      EventRAGClient    structured/direct event search   *)
(*   dual_retriever.py  DualRAGRetriever  combined retrieval               *)
(*   chatbot.py         EventHubChatbot   per-turn pipeline, /chat         *)
(*                                                                         *)
(* Texts are sequences of tokens (strings); a formatted text is the        *)
(* sequence of the pieces the code concatenates, so equality of texts and  *)
(* the substring tests of the code are decided on the pieces.              *)
(***************************************************************************)
EXTENDS Integers, Sequences, FiniteSets, TLC

(***************************************************************************)
(* Bounds of the model.                                                    *)
(***************************************************************************)
\* largest max_messages a memory is constructed with (caps are 0..MaxCap)
MaxCap == 2
\* appends followed since the session was last empty; a log this long takes
\* no further append (a cap of 0 never trims, so the log has no bound of its own)
MaxAppends == 4
\* Largest count asked of get_recent_messages.
MaxCount == 3
\* distinct message contents
NumContents == 2
\* LLMManager.get_response calls followed
MaxLLMCalls == 2
\* events a remote answer may hold beyond the TopK the client keeps
ExtraEvents == 1
\* /chat requests served by the process
NumTasks == 2
\* messages appended to one object over a store whose writes may fail
MaxStoreAppends == 2
\* characters of the short error text, and of the long one beyond the cap
ShortErrorLen == 3
ExtraErrorLen == 2

(***************************************************************************)
(* Program constants.                                                      *)
(***************************************************************************)
\* mcp_client.py: events[:10]
TopK == 10
\* memory.py: max_messages: int = 20
DefaultMaxMessages == 20
\* chatbot.py: self.memory.get_recent_messages(6)
HistoryWindow == 6
\* chatbot.py: str(e)[:100]
ErrorCap == 100

VARIABLES
    \* ---- memory.py: one session's EventHubMemory and its persisted record
    file,          \* the record <persist_path>/<session_id>.json
    memLive,       \* an EventHubMemory object exists for the session
    max_messages,  \* self.max_messages
    messages,      \* self.messages
    appended,      \* history: the messages appended since the log was empty
    startedEmpty,  \* history: the log was empty when `appended` started
    lastOp,        \* history: the last memory operation and what its write did
    \* ---- llm_provider.py: one LLMManager
    llmLive,       \* an LLMManager object exists
    backup_llm,    \* self.backup_llm is set (TRUE) or None (FALSE)
    llmLog,        \* history: one entry per get_response call
    streamLast,    \* history: the last stream_response call and its result
    \* ---- mcp_client.py: one EventRAGClient
    mcpLast,       \* history: the search_events / get_all_events call made
    \* ---- dual_retriever.py: one DualRAGRetriever
    retLive,         \* a DualRAGRetriever object exists
    local_available, \* self.local_available
    mcp_available,   \* self.mcp_available
    retLast,         \* history: the last retrieval call and what it gave
    \* ---- chatbot.py: the process serving /chat
    env,           \* the environment: which credentials and stores are there
    chatbots,      \* the module-level dict: session id -> EventHubChatbot
    bots,          \* the EventHubChatbot objects made so far
    disk,          \* file under persist_path -> the record persisted in it
    running,       \* the request the event loop is running now (0: none)
    task           \* request -> where it is in chat_endpoint / get_response

memVars == <<file, memLive, max_messages, messages, appended, startedEmpty, lastOp>>
llmVars == <<llmLive, backup_llm, llmLog, streamLast>>
mcpVars == <<mcpLast>>
retVars == <<retLive, local_available, mcp_available, retLast>>
srvVars == <<env, chatbots, bots, disk, running, task>>

vars == <<memVars, llmVars, mcpVars, retVars, srvVars>>

(***************************************************************************)
(* Python sequence helpers.                                                *)
(***************************************************************************)
Min(a, b) == IF a < b THEN a ELSE b

\* The last n elements of s (n in 0..Len(s)): the reference the claims use.
LastN(s, n) == SubSeq(s, Len(s) - n + 1, Len(s))

\* The Python slice s[-k:] for k >= 0.  -0 is 0, so s[-0:] is s[0:], the
\* whole list; for k > len(s) the start is clamped to 0.
SliceLast(s, k) ==
    IF k = 0 \/ k >= Len(s) THEN s ELSE SubSeq(s, Len(s) - k + 1, Len(s))

(***************************************************************************)
(* memory.py                                                               *)
(***************************************************************************)
HumanMessage(c) == [type |-> "human", content |-> c]
AIMessage(c) == [type |-> "ai", content |-> c]

Contents == 1..NumContents
Messages == {HumanMessage(c) : c \in Contents} \cup {AIMessage(c) : c \in Contents}
Caps == 0..MaxCap

\* The persisted record: absent, unparseable, or the saved list of entries.
MissingFile == [state |-> "missing", entries |-> <<>>]
CorruptFile == [state |-> "corrupt", entries |-> <<>>]
SavedFile(msgs) == [state |-> "ok", entries |-> msgs]

\* add_message, lines 28-32: append, then keep only the recent messages.
TrimmedAppend(msgs, m, cap) ==
    LET a == Append(msgs, m)
    IN  IF Len(a) > cap THEN SliceLast(a, cap) ELSE a

\* load_memory: the list a fresh object holds after reading record f.
\* A missing record returns early (messages stay []); an unparseable one
\* raises inside the try and the handler resets messages to []; otherwise
\* the human and ai entries are rebuilt in order.  Nothing is trimmed.
RECURSIVE Rebuild(_)
Rebuild(entries) ==
    IF entries = <<>> THEN <<>>
    ELSE LET e == Head(entries)
         IN  IF e.type = "human" THEN <<HumanMessage(e.content)>> \o Rebuild(Tail(entries))
             ELSE IF e.type = "ai" THEN <<AIMessage(e.content)>> \o Rebuild(Tail(entries))
             ELSE Rebuild(Tail(entries))

\* An entry on which the loop of load_memory raises: it is no object, it has
\* no "type" key (msg_data["type"]), or it is a human or ai entry without a
\* "content" key.
LoadRaises(e) ==
    e.type \in {"not an object", "absent", "human without content", "ai without content"}

LoadedMessages(f) ==
    IF f.state = "ok" /\ \A i \in 1..Len(f.entries) : ~LoadRaises(f.entries[i])
    THEN Rebuild(f.entries)
    ELSE <<>>                                   \* lines 87-88 and 101-103

\* a save_memory that names the roles as the record format of the
\* specification does
SaveMemory_RoleNames(msgs) ==
    SavedFile([i \in 1..Len(msgs) |->
                 [type |-> IF msgs[i].type = "human" THEN "user" ELSE "assistant",
                  content |-> msgs[i].content]])

\* save_memory: the record after writing msgs ({"type", "content"} entries).
SaveMemory(msgs) ==
    SavedFile([i \in 1..Len(msgs) |-> [type |-> msgs[i].type, content |-> msgs[i].content]])

\* What the write of save_memory does: it completes; open() raises and the
\* record stays as it was; or the file is opened (truncated) and json.dump
\* raises, leaving an unparseable record.  The handler of lines 79-80
\* prints the error and save_memory returns normally in every case.
WriteOutcomes == {"written", "open_raises", "dump_raises"}
Persist(f, msgs, w) ==
    IF w = "written" THEN SaveMemory(msgs)
    ELSE IF w = "open_raises" THEN f
    ELSE CorruptFile

\* The records a process may find for its session id when it starts: none,
\* an unparseable one, well-formed ones, and ones with entries that are no
\* messages.
Entry(type, content) == [type |-> type, content |-> content]
RecordsFound ==
    {CorruptFile,
     SavedFile(<<>>),
     SavedFile(<<Entry("human", 1), Entry("ai", 1)>>),
     SavedFile(<<Entry("human", 1), Entry("absent", 1)>>),
     SavedFile(<<Entry("human", 1), Entry("ai without content", 0)>>),
     SavedFile(<<Entry("not an object", 0), Entry("ai", 1)>>),
     SavedFile(<<Entry("human", 1), Entry("system", 0)>>)}

MemInit ==
    /\ file = MissingFile
    /\ memLive = FALSE
    /\ max_messages = 0
    /\ messages = <<>>
    /\ appended = <<>>
    /\ startedEmpty = FALSE
    /\ lastOp = [op |-> "none", write |-> "none"]

\* EventHubMemory(session_id, max_messages=cap): __init__ then load_memory.
\* A new object over the same record replaces the previous one (a restart,
\* or a second construction for the same session id).
Construct(cap) ==
    /\ memLive' = TRUE
    /\ max_messages' = cap
    /\ messages' = LoadedMessages(file)
    /\ appended' = <<>>
    /\ startedEmpty' = (LoadedMessages(file) = <<>>)
    /\ lastOp' = [op |-> "construct", write |-> "none"]
    /\ UNCHANGED <<file, llmVars, mcpVars, retVars, srvVars>>

\* add_message (add_user_message / add_ai_message): append, trim, save.
AddMessage(m, w) ==
    /\ memLive
    /\ Len(appended) < MaxAppends
    /\ Len(messages) < MaxAppends
    /\ messages' = TrimmedAppend(messages, m, max_messages)
    /\ file' = Persist(file, messages', w)
    /\ appended' = Append(appended, m)
    /\ lastOp' = [op |-> "add_message", write |-> w]
    /\ UNCHANGED <<memLive, max_messages, startedEmpty, llmVars, mcpVars, retVars, srvVars>>

\* clear_memory: reset to empty, then save.
ClearMemory(w) ==
    /\ memLive
    /\ messages' = <<>>
    /\ file' = Persist(file, <<>>, w)
    /\ appended' = <<>>
    /\ startedEmpty' = TRUE
    /\ lastOp' = [op |-> "clear_memory", write |-> w]
    /\ UNCHANGED <<memLive, max_messages, llmVars, mcpVars, retVars, srvVars>>

\* The process starts with record f in place for the session id.
FindRecord(f) ==
    /\ ~memLive
    /\ file = MissingFile
    /\ file' = f
    /\ UNCHANGED <<memLive, max_messages, messages, appended, startedEmpty, lastOp,
                   llmVars, mcpVars, retVars, srvVars>>

\* A session memory over a store whose writes complete.
\* get_recent_messages(count): messages[-count:] when the list is longer
\* than count, the list itself otherwise.
GetRecentMessages(msgs, count) ==
    IF Len(msgs) > count THEN SliceLast(msgs, count) ELSE msgs

\* memory.get_recent_messages(count); the memory is left as it is.
GetRecent(count) ==
    /\ memLive
    /\ lastOp' = [op |-> "get_recent_messages", write |-> "none", count |-> count,
                  got |-> GetRecentMessages(messages, count)]
    /\ UNCHANGED <<file, memLive, max_messages, messages, appended, startedEmpty,
                   llmVars, mcpVars, retVars, srvVars>>

MemNext ==
    \/ \E cap \in Caps : Construct(cap)
    \/ \E m \in Messages : AddMessage(m, "written")
    \/ ClearMemory("written")
    \/ \E count \in 0..MaxCount : GetRecent(count)

\* A session memory over a store that may hold any record at the start and
\* whose writes may fail.
StoreMessages == {HumanMessage(1), AIMessage(1)}
StoreNext ==
    \/ \E f \in RecordsFound : FindRecord(f)
    \/ \E cap \in Caps : Construct(cap)
    \/ \E m \in StoreMessages, w \in WriteOutcomes :
          Len(appended) < MaxStoreAppends /\ AddMessage(m, w)
    \/ \E w \in WriteOutcomes : ClearMemory(w)

(***************************************************************************)
(* llm_provider.py                                                         *)
(***************************************************************************)
\* line 58: the fixed degraded-service reply
DegradedReply == "I'm having trouble processing your request. Please try again."

\* What a provider's invoke(messages) does: it raises, or it returns a
\* response whose content is one of the texts.
PrimaryTexts == {"gemini reply 1", "gemini reply 2"}
BackupTexts == {"groq reply 1", "groq reply 2"}
InvokeFails == [ok |-> FALSE, text |-> ""]
InvokeOk(t) == [ok |-> TRUE, text |-> t]
PrimaryOutcomes == {InvokeFails} \cup {InvokeOk(t) : t \in PrimaryTexts}
BackupOutcomes == {InvokeFails} \cup {InvokeOk(t) : t \in BackupTexts}

Returned(calls, t) == [calls |-> calls, raised |-> FALSE, text |-> t]
Raised(calls) == [calls |-> calls, raised |-> TRUE, text |-> ""]

\* A get_response that invokes the backup whether or not the primary failed.
LLMGetResponse_BackupAlways(backup, pOut, bOut) ==
    IF backup
    THEN Returned(<<"primary", "backup">>,
                  IF pOut.ok THEN pOut.text ELSE IF bOut.ok THEN bOut.text ELSE DegradedReply)
    ELSE Returned(<<"primary">>, IF pOut.ok THEN pOut.text ELSE DegradedReply)

\* A get_response whose backup invocation is not inside a try.
LLMGetResponse_BackupUnguarded(backup, pOut, bOut) ==
    IF pOut.ok
    THEN Returned(<<"primary">>, pOut.text)
    ELSE IF backup
         THEN IF bOut.ok
              THEN Returned(<<"primary", "backup">>, bOut.text)
              ELSE Raised(<<"primary", "backup">>)
         ELSE Returned(<<"primary">>, DegradedReply)

\* LLMManager.get_response: the providers invoked, in order, and the result.
\* backup is self.backup_llm being set; pOut and bOut are what the primary
\* and the backup invoke would do.
LLMGetResponse(backup, pOut, bOut) ==
    IF pOut.ok
    THEN Returned(<<"primary">>, pOut.text)                    \* lines 45-46
    ELSE IF backup                                             \* line 51
         THEN IF bOut.ok
              THEN Returned(<<"primary", "backup">>, bOut.text)    \* lines 53-54
              ELSE Returned(<<"primary", "backup">>, DegradedReply) \* line 58
         ELSE Returned(<<"primary">>, DegradedReply)           \* line 58

\* What a provider's stream(messages) does.  stream is a generator: the
\* request is made when the stream is iterated, so a failing provider
\* raises on iteration; a call that raises at once (before any iteration)
\* is the other failure.
StreamFallback == "Error: Unable to stream response"
StreamOk(chunks) == [kind |-> "chunks", chunks |-> chunks]
StreamRaisesAtCall == [kind |-> "raises at call", chunks |-> <<>>]
StreamRaisesOnIteration == [kind |-> "raises on iteration", chunks |-> <<>>]
PrimaryStreams == {StreamOk(<<"gemini ", "reply 1">>), StreamRaisesAtCall, StreamRaisesOnIteration}
BackupStreams == {StreamOk(<<"groq ", "reply 1">>), StreamRaisesAtCall, StreamRaisesOnIteration}
NoStream == [kind |-> "not called", chunks |-> <<>>]

\* LLMManager.stream_response: the providers whose stream was called, whether
\* the call itself raised, and the stream handed to the caller (its chunks,
\* and whether iterating it raises).
Streamed(calls, raised, st) ==
    [calls |-> calls, raised |-> raised, chunks |-> st.chunks,
     fails |-> (st.kind = "raises on iteration")]
StreamResponse(backup, pOut, bOut) ==
    IF pOut.kind # "raises at call"
    THEN Streamed(<<"primary">>, FALSE, pOut)                              \* line 63
    ELSE IF backup
         THEN Streamed(<<"primary", "backup">>, bOut.kind = "raises at call", bOut)  \* line 67
         ELSE Streamed(<<"primary">>, FALSE, StreamOk(<<StreamFallback>>))    \* line 68

LLMInit ==
    /\ llmLive = FALSE
    /\ backup_llm = FALSE
    /\ llmLog = <<>>
    /\ streamLast = [op |-> "none", backup |-> FALSE, pOut |-> NoStream, bOut |-> NoStream,
                     res |-> Streamed(<<>>, FALSE, NoStream)]

\* LLMManager(): GOOGLE_API_KEY missing raises ValueError and no object is
\* made; GROQ_API_KEY missing leaves backup_llm None.
LLMConstruct(googleKey, groqKey) ==
    /\ ~llmLive
    /\ llmLive' = googleKey
    /\ backup_llm' = (googleKey /\ groqKey)
    /\ UNCHANGED <<llmLog, streamLast, memVars, mcpVars, retVars, srvVars>>

\* One get_response(messages) call.
LLMCall(pOut, bOut) ==
    /\ llmLive
    /\ Len(llmLog) < MaxLLMCalls
    /\ llmLog' = Append(llmLog, [backup |-> backup_llm, pOut |-> pOut, bOut |-> bOut,
                                 res |-> LLMGetResponse(backup_llm, pOut, bOut)])
    /\ UNCHANGED <<llmLive, backup_llm, streamLast, memVars, mcpVars, retVars, srvVars>>

\* One stream_response(messages) call, consumed by the caller.
LLMStream(pOut, bOut) ==
    /\ llmLive
    /\ streamLast' = [op |-> "stream", backup |-> backup_llm, pOut |-> pOut, bOut |-> bOut,
                      res |-> StreamResponse(backup_llm, pOut, bOut)]
    /\ UNCHANGED <<llmLive, backup_llm, llmLog, memVars, mcpVars, retVars, srvVars>>

LLMNext ==
    \/ \E g \in BOOLEAN, q \in BOOLEAN : LLMConstruct(g, q)
    \/ \E pOut \in PrimaryOutcomes, bOut \in BackupOutcomes : LLMCall(pOut, bOut)
    \/ \E pOut \in PrimaryStreams, bOut \in BackupStreams : LLMStream(pOut, bOut)

(***************************************************************************)
(* mcp_client.py                                                           *)
(*                                                                         *)
(* A JSON object (a Python dict) is a record with the set of its keys and  *)
(* one field per key the client reads; a field whose key is absent holds   *)
(* a default that nothing reads.                                           *)
(***************************************************************************)
NoDict == [keys |-> {}, query |-> "", results_count |-> 0, total_events |-> 0,
           total_found |-> 0, events |-> <<>>, error |-> <<>>]
Has(d, k) == k \in d.keys

\* Decimal numerals, as the f-strings print them.
Str(n) == <<"0", "1", "2", "3", "4", "5", "6", "7", "8", "9", "10", "11", "12",
            "13", "14", "15", "16", "17", "18", "19", "20">>[n + 1]

\* An event record (EventRecord of the remote service): a JSON object with
\* any of the keys title, location, startDateTime, isFree, price, category,
\* organizer, tags.  obj = FALSE stands for a list entry that is no object.
NoEvent == [obj |-> TRUE, keys |-> {}, title |-> "", location |-> "", startDateTime |-> "",
            isFree |-> FALSE, price |-> "", category |-> "", organizer |-> "", tags |-> ""]
AllEventKeys == {"title", "location", "startDateTime", "isFree", "price", "category",
                 "organizer", "tags"}
\* every field present and set, priced
FullEvent == [obj |-> TRUE, keys |-> AllEventKeys, title |-> "Jazz Night", location |-> "Blue Note",
              startDateTime |-> "2025-06-07T20:00", isFree |-> FALSE, price |-> "25",
              category |-> "music", organizer |-> "City Jazz", tags |-> "jazz,live"]
\* a free event with a title only
FreeEvent == [NoEvent EXCEPT !.keys = {"title", "isFree"}, !.title = "Open Air Cinema",
                             !.isFree = TRUE]
\* an empty object
BareEvent == NoEvent
\* every field present and empty
BlankEvent == [NoEvent EXCEPT !.keys = AllEventKeys]
\* a list entry that is a string, not an object
NotAnEvent == [NoEvent EXCEPT !.obj = FALSE]

Event(i) == <<FullEvent, FreeEvent, BareEvent, BlankEvent>>[((i - 1) % 4) + 1]
EventList(n) == [i \in 1..n |-> Event(i)]
MaxEvents == TopK + ExtraEvents
EventLists == {EventList(n) : n \in 0..MaxEvents}

\* events[:10]
FirstK(evs) == SubSeq(evs, 1, Min(Len(evs), TopK))

\* The canonical search result {query, results_count, events}.
SearchResult(q, n, evs) ==
    [NoDict EXCEPT !.keys = {"query", "results_count", "events"},
                   !.query = q, !.results_count = n, !.events = evs]
AllEventsResult(n, evs) ==
    [NoDict EXCEPT !.keys = {"total_events", "events"},
                   !.total_events = n, !.events = evs]
\* {"error": msg}
ErrorResult(msg) == [NoDict EXCEPT !.keys = {"error"}, !.error = msg]

Queries == {"music events", "No events found last week, any now?"}

\* What the remote service does with one POST {base_url}/mcp/tools/call.
\*   a transport failure: httpx raises, raise_for_status raises on a non-2xx
\*       status, or response.json() raises;
\*   "rpc_error": the envelope carries "error";
\*   "no_result", "no_content", "empty_content": the envelope has no
\*       "result", the result no "content", or an empty content list;
\*   "text_not_json": content[0].text is not JSON;
\*   "payload_not_object": the text is JSON but not an object;
\*   "no_text": content[0] has no "text";
\*   "payload": the text is the JSON object `payload`.
TransportFailures == {"connect_error", "timeout", "request_error", "http_status", "body_not_json"}
McpFailureKinds ==
    TransportFailures \cup
    {"rpc_error", "no_result", "no_content", "empty_content", "text_not_json",
     "payload_not_object"}
McpOut(kind, payload) == [kind |-> kind, payload |-> payload]
ToolError == ErrorResult(<<"search index unavailable">>)
\* a payload whose events list holds an entry that is no object
MalformedPayload(q) == SearchResult(q, 1, <<NotAnEvent>>)
\* a payload that also carries the total_found count that
\* format_events_for_llm reads (line 187)
PagedPayload(q) ==
    [SearchResult(q, 2, EventList(2)) EXCEPT !.keys = @ \cup {"total_found"}, !.total_found = 5]
SearchPayloads(q) ==
    {SearchResult(q, Len(evs), FirstK(evs)) : evs \in EventLists} \cup
    {ToolError, MalformedPayload(q), PagedPayload(q)}
AllPayloads ==
    {AllEventsResult(Len(evs), FirstK(evs)) : evs \in EventLists} \cup {ToolError}
McpSearchOutcomes(q) ==
    {McpOut(k, NoDict) : k \in McpFailureKinds \cup {"no_text"}} \cup
    {McpOut("payload", pl) : pl \in SearchPayloads(q)}
McpAllOutcomes ==
    {McpOut(k, NoDict) : k \in McpFailureKinds \cup {"no_text"}} \cup
    {McpOut("payload", pl) : pl \in AllPayloads}
NoMcpCall == McpOut("not called", NoDict)

\* What the remote service does with one POST {base_url}/search.
DirectOut(kind, body) == [kind |-> kind, body |-> body]
DirectBody(evs) == [keys |-> {"results"}, results |-> evs]
DirectOutcomes ==
    {DirectOut(k, [keys |-> {}, results |-> <<>>]) : k \in TransportFailures \cup {"body_not_object"}} \cup
    {DirectOut("ok", DirectBody(evs)) : evs \in EventLists} \cup
    {DirectOut("ok", [keys |-> {}, results |-> <<>>])}

NoDirectCall == DirectOut("not called", [keys |-> {}, results |-> <<>>])

Step(ok, result, err) == [ok |-> ok, result |-> result, err |-> err]

\* An unwrapping without the check of line 95: a result without content is
\* read as an empty payload.
StructuredAttempt_NoContentCheck(out) ==
    IF out.kind \in TransportFailures \cup {"rpc_error", "text_not_json", "payload_not_object"}
    THEN Step(FALSE, NoDict, <<out.kind>>)
    ELSE IF out.kind = "payload" THEN Step(TRUE, out.payload, <<>>)
    ELSE Step(TRUE, NoDict, <<>>)

\* _send_mcp_request, then the unwrapping of search_events lines 95-107 (the
\* same lines 146-159 in get_all_events).  ok = FALSE: an exception left
\* the inner try; ok = TRUE: the value the inner try returned.
StructuredAttempt(out) ==
    IF out.kind \in TransportFailures
    THEN Step(FALSE, NoDict, <<"Unexpected error: ", out.kind>>)   \* lines 35-50
    ELSE IF out.kind = "rpc_error"
    THEN Step(FALSE, NoDict, <<"MCP Error: ", out.kind>>)          \* lines 52-55
    ELSE IF out.kind \in {"no_result", "no_content", "empty_content"}
    THEN Step(FALSE, NoDict, <<"No content in MCP response">>)     \* lines 95, 107
    ELSE IF out.kind = "text_not_json"
    THEN Step(FALSE, NoDict, <<"JSONDecodeError">>)                \* line 97
    ELSE IF out.kind = "payload_not_object"
    THEN Step(FALSE, NoDict, <<"AttributeError">>)                 \* line 103
    ELSE IF out.kind = "no_text"
    THEN Step(TRUE, NoDict, <<>>)                                  \* line 96: "{}"
    ELSE Step(TRUE, out.payload, <<>>)                             \* lines 99-105

\* _send_direct_request, then lines 119-127.
DirectAttempt(query, out) ==
    IF out.kind \in TransportFailures
    THEN Step(FALSE, NoDict, <<"Direct request to /search failed: ", out.kind>>)
    ELSE IF out.kind = "body_not_object"
    THEN Step(FALSE, NoDict, <<"AttributeError">>)                 \* line 119
    ELSE LET events == IF "results" \in out.body.keys THEN out.body.results ELSE <<>>
         IN  Step(TRUE, SearchResult(query, Len(events), FirstK(events)), <<>>)

Outcome(calls, raised, result) == [calls |-> calls, raised |-> raised, result |-> result]

\* A search_events without the outer try of lines 84 and 129: a failure of
\* the direct request leaves the call as an exception.
SearchEvents_NoOuterTry(query, mOut, dOut) ==
    LET s == StructuredAttempt(mOut)
    IN  IF s.ok
        THEN Outcome(<<"mcp">>, FALSE, s.result)
        ELSE LET d == DirectAttempt(query, dOut)
             IN  IF d.ok
                 THEN Outcome(<<"mcp", "direct">>, FALSE, d.result)
                 ELSE Outcome(<<"mcp", "direct">>, TRUE, NoDict)

\* search_events: the paths attempted, in order, and what the call gives.
SearchEvents(query, mOut, dOut) ==
    LET s == StructuredAttempt(mOut)
    IN  IF s.ok
        THEN Outcome(<<"mcp">>, FALSE, s.result)
        ELSE LET d == DirectAttempt(query, dOut)
             IN  IF d.ok
                 THEN Outcome(<<"mcp", "direct">>, FALSE, d.result)
                 ELSE Outcome(<<"mcp", "direct">>, FALSE,
                              ErrorResult(<<"Search failed: ">> \o d.err))   \* lines 129-132

\* get_all_events: the structured call, else search_events("events").
GetAllEvents(aOut, mOut, dOut) ==
    LET s == StructuredAttempt(aOut)
    IN  IF s.ok
        THEN Outcome(<<"mcp">>, FALSE, s.result)
        ELSE LET r == SearchEvents("events", mOut, dOut)
             IN  Outcome(<<"mcp">> \o r.calls, r.raised, r.result)

McpInit == mcpLast = [op |-> "none", query |-> "", aOut |-> NoMcpCall, mOut |-> NoMcpCall,
                      dOut |-> NoDirectCall, res |-> Outcome(<<>>, FALSE, NoDict)]

\* One search_events(query) call.
McpSearch(q, mOut, dOut) ==
    /\ mcpLast.op = "none"
    /\ mcpLast' = [op |-> "search", query |-> q, aOut |-> NoMcpCall, mOut |-> mOut,
                   dOut |-> dOut, res |-> SearchEvents(q, mOut, dOut)]
    /\ UNCHANGED <<memVars, llmVars, retVars, srvVars>>

\* One get_all_events() call.
McpGetAll(aOut, mOut, dOut) ==
    /\ mcpLast.op = "none"
    /\ mcpLast' = [op |-> "get_all", query |-> "events", aOut |-> aOut, mOut |-> mOut,
                   dOut |-> dOut, res |-> GetAllEvents(aOut, mOut, dOut)]
    /\ UNCHANGED <<memVars, llmVars, retVars, srvVars>>

\* (the guard of both actions is repeated ahead of the inputs, so that the
\* inputs are enumerated only where a call can be made)
McpNext ==
    \/ /\ mcpLast.op = "none"
       /\ \E q \in Queries : \E mOut \in McpSearchOutcomes(q), dOut \in DirectOutcomes :
              McpSearch(q, mOut, dOut)
    \/ /\ mcpLast.op = "none"
       /\ \E aOut \in McpAllOutcomes, mOut \in McpSearchOutcomes("events"), dOut \in DirectOutcomes :
              McpGetAll(aOut, mOut, dOut)

\* format_events_for_llm, lines 202-232: the entry of event number i.
GetField(e, k, default) == IF k \in e.keys THEN e[k] ELSE default
EventEntry(i, e) ==
    LET location == GetField(e, "location", "Location TBA")
        start_date == GetField(e, "startDateTime", "Date TBA")
        category == GetField(e, "category", "Uncategorized")
        organizer == GetField(e, "organizer", "")
        tags == GetField(e, "tags", "")
    IN  <<Str(i), ". ", GetField(e, "title", "Untitled Event")>>
        \o (IF location # "" THEN <<"Location: ", location>> ELSE <<>>)
        \o (IF start_date # "" THEN <<"Date: ", start_date>> ELSE <<>>)
        \o (IF "isFree" \in e.keys /\ e.isFree THEN <<"Price: Free">>
            ELSE IF GetField(e, "price", "") # "" THEN <<"Price: $", e.price>>
            ELSE <<"Price: TBA">>)
        \o (IF category # "" THEN <<"Category: ", category>> ELSE <<>>)
        \o (IF organizer # "" THEN <<"Organizer: ", organizer>> ELSE <<>>)
        \o (IF tags # "" THEN <<"Tags: ", tags>> ELSE <<>>)

RECURSIVE EventEntries(_, _)
EventEntries(events, i) ==
    IF i > Len(events) THEN <<>>
    ELSE EventEntry(i, events[i]) \o EventEntries(events, i + 1)

\* line 183: the sentinel of an empty events list
NoEventsFound == "No events found matching your criteria."

Text(ok, text) == [ok |-> ok, text |-> text]

\* format_events_for_llm: ok = FALSE when it raises (event.get on a list
\* entry that is no object), else the text it returns.
FormatEventsForLLM(events_data) ==
    IF Has(events_data, "error")
    THEN Text(TRUE, <<"Error retrieving events: ">> \o events_data.error)   \* lines 176-179
    ELSE
    LET events == IF Has(events_data, "events") THEN events_data.events ELSE <<>>
        results_count == IF Has(events_data, "results_count")
                         THEN events_data.results_count ELSE Len(events)
        total_found == IF Has(events_data, "total_found")
                       THEN events_data.total_found ELSE results_count
        shown == FirstK(events)                                             \* events[:10]
    IN  IF events = <<>>
        THEN Text(TRUE, <<NoEventsFound>>)                                  \* lines 182-185
        ELSE IF \E j \in 1..Len(shown) : ~shown[j].obj
        THEN Text(FALSE, <<"AttributeError">>)
        ELSE Text(TRUE,
                  (IF Has(events_data, "query")
                   THEN <<"Found ", Str(results_count), " events matching '",
                          events_data.query, "':">>
                   ELSE <<"Found ", Str(results_count), " events:">>)
                  \o (IF Len(events) < total_found
                      THEN <<"(Showing top ", Str(Len(events)), " of ", Str(total_found),
                             " total results)">>
                      ELSE <<>>)
                  \o EventEntries(shown, 1))

\* health_check: the probe gives the service's JSON, or {"error", "status"}
\* when the GET raises (timeout after 5 s, connection failure, non-2xx).
HealthOutcomes == {"healthy", "probe_failed", "error_key"}

(***************************************************************************)
(* retriever.py                                                            *)
(***************************************************************************)
\* line 43: the sentinel of an empty document list
NoLocalContext == "No relevant context found."

\* format_context
RECURSIVE NumberedDocs(_, _)
NumberedDocs(docs, i) ==
    IF i > Len(docs) THEN <<>>
    ELSE <<Str(i), ". ", docs[i]>> \o NumberedDocs(docs, i + 1)
FormatContext(documents) ==
    IF documents = <<>> THEN <<NoLocalContext>>
    ELSE <<"Relevant information:">> \o NumberedDocs(documents, 1)

\* What one local retrieval does: the similarity search returns documents,
\* or raises (retrieve_context then returns []), or a document has no text
\* (doc.strip() raises in format_context).
LocalOut(kind, docs) == [kind |-> kind, docs |-> docs]
LocalOutcomes ==
    {LocalOut("docs", d) : d \in {<<>>, <<"How to submit an event">>,
                                  <<"How to submit an event", "Ticket refunds">>}} \cup
    {LocalOut("search_raises", <<>>), LocalOut("format_raises", <<>>)}

\* EventHubRetriever.get_formatted_context
LocalFormattedContext(lOut) ==
    IF lOut.kind = "format_raises" THEN Text(FALSE, <<"AttributeError">>)
    ELSE IF lOut.kind = "search_raises" THEN Text(TRUE, FormatContext(<<>>))   \* lines 36-38
    ELSE Text(TRUE, FormatContext(lOut.docs))

(***************************************************************************)
(* dual_retriever.py                                                       *)
(***************************************************************************)
KnowledgeBaseLabel == "Knowledge Base:"
CurrentEventsLabel == "Current Events:"
Separator == "--------------------------------------------------"
\* a combined retrieval that reuses the sentinel of the local retriever
NoContextAnySource_LocalSentinel == NoLocalContext
\* line 77
NoContextAnySource == "No relevant context found from available sources."
LocalNotAvailable == "Local knowledge base not available."
EventsNotAvailable == "Event search service not available."
EventsNotHealthy == "Event search service is not healthy."

\* `"No events found" not in events_context`, line 67: a substring test on
\* the whole text.  The pieces that hold the phrase are the sentinel of
\* format_events_for_llm and a query that quotes it.
HoldsNoEventsFound(piece) ==
    piece \in {NoEventsFound, "No events found last week, any now?"}
ContainsNoEventsFound(text) == \E j \in 1..Len(text) : HoldsNoEventsFound(text[j])

\* a probe whose answer is not looked at
CheckMcpHealth_Optimistic(hOut) == TRUE

\* _check_mcp_health: True for an answer without "error", False for one with
\* it and for an exception inside the probe.
CheckMcpHealth(hOut) == hOut = "healthy"

\* "\n\n" + "-" * 50 + "\n\n" joined between the blocks
RECURSIVE JoinBlocks(_)
JoinBlocks(blocks) ==
    IF Len(blocks) = 1 THEN blocks[1]
    ELSE blocks[1] \o <<Separator>> \o JoinBlocks(Tail(blocks))

Retrieved(raised, context, blocks, calls, mcpAfter) ==
    [raised |-> raised, context |-> context, blocks |-> blocks, calls |-> calls,
     mcp_available |-> mcpAfter]

\* get_formatted_context_async: the text returned, the labels of the blocks
\* it appended, the remote calls made, and self.mcp_available afterwards.
GetFormattedContextAsync(la, ma, query, lOut, hOut, mOut, dOut) ==
    LET local == LocalFormattedContext(lOut)
        kb == IF la /\ local.ok /\ local.text # <<>> /\ local.text # <<NoLocalContext>>
              THEN <<<<KnowledgeBaseLabel>> \o local.text>> ELSE <<>>     \* lines 49-55
        healthy == ma /\ CheckMcpHealth(hOut)
        found == SearchEvents(query, mOut, dOut)
        events_context == FormatEventsForLLM(found.result)
        ce == IF healthy /\ events_context.ok /\ events_context.text # <<>>
                 /\ ~ContainsNoEventsFound(events_context.text)
              THEN <<<<CurrentEventsLabel>> \o events_context.text>> ELSE <<>>   \* lines 61-68
        contexts == kb \o ce
        calls == IF ~ma THEN <<>>
                 ELSE IF ~healthy THEN <<"health">>
                 ELSE <<"health">> \o found.calls
        after == IF healthy /\ ~events_context.ok THEN FALSE ELSE ma         \* lines 71-73
    IN  Retrieved(FALSE,
                  IF contexts = <<>> THEN <<NoContextAnySource>> ELSE JoinBlocks(contexts),
                  [j \in 1..Len(contexts) |-> contexts[j][1]], calls, after)

\* get_local_context_only
GetLocalContextOnly(la, ma, lOut) ==
    IF la
    THEN LET local == LocalFormattedContext(lOut)
         IN  Retrieved(~local.ok, local.text, <<>>, <<>>, ma)
    ELSE Retrieved(FALSE, <<LocalNotAvailable>>, <<>>, <<>>, ma)

\* an events-only retrieval that probes on every call and takes a healthy
\* answer as the service being back
GetEventsContextOnlyAsync_Recheck(ma, query, hOut, mOut, dOut) ==
    IF ~CheckMcpHealth(hOut)
    THEN Retrieved(FALSE, <<EventsNotHealthy>>, <<>>, <<"health">>, ma)
    ELSE LET found == SearchEvents(query, mOut, dOut)
             events_context == FormatEventsForLLM(found.result)
         IN  Retrieved(FALSE, events_context.text, <<>>, <<"health">> \o found.calls,
                       events_context.ok)

\* get_events_context_only_async
GetEventsContextOnlyAsync(ma, query, hOut, mOut, dOut) ==
    IF ~ma THEN Retrieved(FALSE, <<EventsNotAvailable>>, <<>>, <<>>, ma)
    ELSE IF ~CheckMcpHealth(hOut)
    THEN Retrieved(FALSE, <<EventsNotHealthy>>, <<>>, <<"health">>, ma)
    ELSE LET found == SearchEvents(query, mOut, dOut)
             events_context == FormatEventsForLLM(found.result)
         IN  IF events_context.ok
             THEN Retrieved(FALSE, events_context.text, <<>>, <<"health">> \o found.calls, ma)
             ELSE Retrieved(FALSE, <<"Error retrieving events: ">> \o events_context.text,
                            <<>>, <<"health">> \o found.calls, FALSE)     \* lines 118-120

\* The remote answers a retrieval is run against.
RetMcpOutcomes(q) ==
    {McpOut(k, NoDict) : k \in {"timeout", "text_not_json", "no_text"}} \cup
    {McpOut("payload", SearchResult(q, n, FirstK(EventList(n)))) : n \in {0, 2, MaxEvents}} \cup
    {McpOut("payload", SearchResult(q, MaxEvents, EventList(MaxEvents)))} \cup
    {McpOut("payload", ToolError), McpOut("payload", MalformedPayload(q))}
RetDirectOutcomes ==
    {DirectOut("timeout", [keys |-> {}, results |-> <<>>])} \cup
    {DirectOut("ok", DirectBody(EventList(n))) : n \in {0, 2}}

\* asyncio.get_running_loop() raises RuntimeError with this text when the
\* caller is not inside a running loop; the wrappers raise the other one.
NoRunningLoop == <<"no running event loop">>
CannotUseSync == <<"Cannot use synchronous method from within async context.",
                   "Use the async method instead.">>
NoError == <<>>
GetRunningLoop(inLoop) ==
    [raised |-> ~inLoop, error |-> IF inLoop THEN NoError ELSE NoRunningLoop]

\* "no running event loop" in str(e).lower()
MentionsNoRunningLoop(e) == \E i \in 1..Len(e) : e[i] = NoRunningLoop[1]

\* A wrapper that hands the coroutine to asyncio.run whatever the caller's
\* context is.
SyncWrapper_AlwaysRuns(inLoop, ma, asyncResult) ==
    [error |-> NoError, res |-> asyncResult]

\* get_formatted_context and get_events_context_only: the RuntimeError
\* raised in the try block is caught by the handler below it, which runs the
\* coroutine with asyncio.run only when the text is get_running_loop's.
SyncWrapper(inLoop, ma, asyncResult) ==
    LET probe == GetRunningLoop(inLoop)
        e == IF probe.raised THEN probe.error ELSE CannotUseSync
    IN  IF MentionsNoRunningLoop(e)
        THEN [error |-> NoError, res |-> asyncResult]
        ELSE [error |-> e, res |-> Retrieved(TRUE, <<>>, <<>>, <<>>, ma)]

NoRetrieval == [op |-> "none", query |-> "", la |-> FALSE, ma |-> FALSE,
                loop |-> FALSE, error |-> NoError,
                lOut |-> LocalOut("not called", <<>>), hOut |-> "not called",
                mOut |-> NoMcpCall, dOut |-> NoDirectCall,
                res |-> Retrieved(FALSE, <<>>, <<>>, <<>>, FALSE)]

RetInit ==
    /\ retLive = FALSE
    /\ local_available = FALSE
    /\ mcp_available = FALSE
    /\ retLast = NoRetrieval

\* DualRAGRetriever(base_url): the local retriever is built or, when its
\* constructor raises, local_available is False; mcp_available starts True.
RetConstruct(localOk) ==
    /\ ~retLive
    /\ retLive' = TRUE
    /\ local_available' = localOk
    /\ mcp_available' = TRUE
    /\ UNCHANGED <<retLast, memVars, llmVars, mcpVars, srvVars>>

RetRecord(op, inLoop, error, q, lOut, hOut, mOut, dOut, res) ==
    /\ retLive
    /\ retLast' = [op |-> op, query |-> q, la |-> local_available, ma |-> mcp_available,
                   loop |-> inLoop, error |-> error,
                   lOut |-> lOut, hOut |-> hOut, mOut |-> mOut, dOut |-> dOut, res |-> res]
    /\ mcp_available' = res.mcp_available
    /\ UNCHANGED <<retLive, local_available, memVars, llmVars, mcpVars, srvVars>>

\* The coroutines and get_local_context_only, called from a running loop.
RetCall(op, q, lOut, hOut, mOut, dOut, res) ==
    RetRecord(op, TRUE, NoError, q, lOut, hOut, mOut, dOut, res)

\* await get_formatted_context_async(query)
RetCombined(q, lOut, hOut, mOut, dOut) ==
    RetCall("combined", q, lOut, hOut, mOut, dOut,
            GetFormattedContextAsync(local_available, mcp_available, q, lOut, hOut, mOut, dOut))

\* get_local_context_only(query)
RetLocalOnly(q, lOut) ==
    RetCall("local", q, lOut, "not called", NoMcpCall, NoDirectCall,
            GetLocalContextOnly(local_available, mcp_available, lOut))

\* await get_events_context_only_async(query)
RetEventsOnly(q, hOut, mOut, dOut) ==
    RetCall("events", q, LocalOut("not called", <<>>), hOut, mOut, dOut,
            GetEventsContextOnlyAsync(mcp_available, q, hOut, mOut, dOut))

\* get_formatted_context(query), from inside a loop or from plain code
RetSyncCombined(inLoop, q, lOut, hOut, mOut, dOut) ==
    LET w == SyncWrapper(inLoop, mcp_available,
                 GetFormattedContextAsync(local_available, mcp_available, q, lOut, hOut, mOut, dOut))
    IN  RetRecord("sync_combined", inLoop, w.error, q, lOut, hOut, mOut, dOut, w.res)

\* get_events_context_only(query), from inside a loop or from plain code
RetSyncEvents(inLoop, q, hOut, mOut, dOut) ==
    LET w == SyncWrapper(inLoop, mcp_available,
                 GetEventsContextOnlyAsync(mcp_available, q, hOut, mOut, dOut))
    IN  RetRecord("sync_events", inLoop, w.error, q, LocalOut("not called", <<>>),
                  hOut, mOut, dOut, w.res)

\* The remote side of one retrieval: what the probe, the structured call
\* and the direct call do, each drawn only where the call before it lets
\* the retrieval reach it.
RemoteScenarios(q) ==
    {<<h, NoMcpCall, NoDirectCall>> : h \in HealthOutcomes \ {"healthy"}} \cup
    {<<"healthy", m, NoDirectCall>> : m \in {x \in RetMcpOutcomes(q) : StructuredAttempt(x).ok}} \cup
    {<<"healthy", m, d>> : m \in {x \in RetMcpOutcomes(q) : ~StructuredAttempt(x).ok},
                           d \in RetDirectOutcomes}

RetNext ==
    \/ \E localOk \in BOOLEAN : RetConstruct(localOk)
    \/ \E q \in Queries, lOut \in LocalOutcomes : \E r \in RemoteScenarios(q) :
           RetCombined(q, lOut, r[1], r[2], r[3])
    \/ \E q \in Queries, lOut \in LocalOutcomes : RetLocalOnly(q, lOut)
    \/ \E q \in Queries : \E r \in RemoteScenarios(q) :
           RetEventsOnly(q, r[1], r[2], r[3])
    \/ \E inLoop \in BOOLEAN, q \in Queries, lOut \in LocalOutcomes :
         \E r \in RemoteScenarios(q) : RetSyncCombined(inLoop, q, lOut, r[1], r[2], r[3])
    \/ \E inLoop \in BOOLEAN, q \in Queries : \E r \in RemoteScenarios(q) :
           RetSyncEvents(inLoop, q, r[1], r[2], r[3])

(***************************************************************************)
(* chatbot.py                                                              *)
(*                                                                         *)
(* The endpoints are coroutines on one event loop: a request runs from one *)
(* await to the next without any other request running in between.         *)
(* `running` is the request that holds the loop; a step of request t needs *)
(* the loop free or held by t, and leaves it free exactly where the code   *)
(* awaits a network call (the health probe, the structured call, the       *)
(* direct call) or returns.                                                *)
(***************************************************************************)
Sessions == {"A", "B"}
\* request.session_id is any string: beside the plain ids, one that reaches
\* the file of session A by another spelling.
SessionIds == Sessions \cup {"./A"}
\* f"{self.session_id}.json" joined to persist_path, as path components
FileName(s) ==
    IF s = "A" THEN <<"A.json">> ELSE IF s = "B" THEN <<"B.json">> ELSE <<".", "A.json">>
\* The file that open() reaches for that path: a "." component names the
\* directory it stands in.
FilePath(s) == SelectSeq(FileName(s), LAMBDA c : c # ".")
Files == {FilePath(s) : s \in SessionIds}
Tasks == 1..NumTasks
RetrievalModes == {"combined", "local", "events", "none"}

\* request.message of request t
QueryOf(t) == <<"question 1", "question 2", "question 3", "question 4">>[t]

\* str(e) of the exceptions that can reach line 107, character by
\* character: one shorter than the cap of line 108, one longer.
ShortError == [i \in 1..ShortErrorLen |-> "e"]
LongError == [i \in 1..(ErrorCap + ExtraErrorLen) |-> "E"]
\* the text of the exception a failing local retrieval raises
ExceptionText(name) == ShortError

\* a reply that embeds the whole error text
First100_Uncapped(msg) == msg
\* str(e)[:100]
First100(msg) == IF Len(msg) <= ErrorCap THEN msg ELSE SubSeq(msg, 1, ErrorCap)
\* line 108
ErrorPrefix == "I encountered an error: "
ErrorSuffix == ". Please try again."
ErrorReply(msg) == <<ErrorPrefix>> \o First100(msg) \o <<ErrorSuffix>>

\* the sources whose content is in a context text: the documents of the
\* local retriever, the events of the remote service
ContributedSources(context) ==
    (IF \E j \in 1..Len(context) : context[j] = "Relevant information:"
     THEN {"knowledge_base"} ELSE {})
    \cup
    (IF \E j \in 1..Len(context) : context[j] = "Found "
     THEN {"current_events"} ELSE {})

\* What the services do during the turns of the process.
SrvLocalOutcomes ==
    {LocalOut("docs", <<"How to submit an event">>), LocalOut("format_raises", <<>>)}
SrvHealthOutcomes == {"healthy", "probe_failed"}
SrvMcpOutcomes(q) ==
    {McpOut("timeout", NoDict), McpOut("payload", SearchResult(q, 2, EventList(2))),
     McpOut("payload", SearchResult(q, 0, <<>>))}
SrvDirectOutcomes ==
    {DirectOut("timeout", [keys |-> {}, results |-> <<>>]), DirectOut("ok", DirectBody(EventList(2)))}
SrvLLMOutcomes ==
    {<<InvokeOk("gemini reply 1"), InvokeFails>>, <<InvokeFails, InvokeOk("groq reply 1")>>}

NoLocalCall == LocalOut("not called", <<>>)
IdleTask == [pc |-> "idle", session |-> "", mode |-> "", bot |-> 0, error |-> <<>>,
             lOut |-> NoLocalCall, hOut |-> "not called", mOut |-> NoMcpCall,
             context |-> <<>>, contributed |-> {}, before |-> <<>>, hist |-> <<>>,
             seen |-> <<>>,
             response |-> <<>>, sources_used |-> <<>>, failed |-> FALSE, http |-> 0]

\* The environments: GOOGLE_API_KEY and GROQ_API_KEY set or not, the Chroma
\* store usable or not.
Envs == [google : BOOLEAN, groq : BOOLEAN, chroma : BOOLEAN, up : {TRUE}]
NotStarted == [google |-> FALSE, groq |-> FALSE, chroma |-> FALSE, up |-> FALSE]

SrvInit ==
    /\ env = NotStarted
    /\ chatbots = [s \in SessionIds |-> 0]
    /\ bots = <<>>
    /\ disk = [f \in Files |-> MissingFile]
    /\ running = 0
    /\ task = [t \in Tasks |-> IdleTask]

\* a get_chatbot that suspends between the test and the construction
AfterLookup_Awaited(t) == 0
\* Where the loop is after line 49 of get_chatbot found no chatbot: the
\* constructor call of line 50 follows with no await between them.
AfterLookup(t) == t

\* a get_response that awaits the model's reply
AfterGenerate_Awaited(t) == 0
\* Where the loop is after self.llm.get_response(messages), line 99: a plain
\* (blocking) call, the request keeps the loop.
AfterGenerate(t) == t

\* Request t may take a step.
CanStep(t) == running \in {0, t}

\* EventHubChatbot(session_id): the object made in environment e.
\* DualRAGRetriever() does not raise (a failing local retriever leaves
\* local_available False); EventHubMemory loads the persisted record.
NewChatbot(e, s, record) ==
    [session |-> s, retriever_available |-> TRUE,
     local_available |-> (e.google /\ e.chroma), mcp_available |-> TRUE,
     backup_llm |-> e.groq, max_messages |-> DefaultMaxMessages,
     messages |-> LoadedMessages(record)]

\* The server process starts in environment e: chatbots = {} and no request
\* yet.
Start(e) ==
    /\ ~env.up
    /\ env' = e
    /\ UNCHANGED <<chatbots, bots, disk, running, task, memVars, llmVars, mcpVars, retVars>>

\* chat_endpoint is entered for session s and mode m; get_chatbot line 49.
Lookup(t, s, m) ==
    /\ env.up
    /\ task[t].pc = "idle"
    /\ \A u \in Tasks : u < t => task[u].pc # "idle"    \* requests are numbered as they arrive
    /\ running = 0
    /\ IF chatbots[s] # 0
       THEN /\ task' = [task EXCEPT ![t] = [IdleTask EXCEPT !.pc = "turn", !.session = s,
                                                          !.mode = m, !.bot = chatbots[s],
                                                          !.before = bots[chatbots[s]].messages]]
            /\ running' = t
       ELSE /\ task' = [task EXCEPT ![t] = [IdleTask EXCEPT !.pc = "create", !.session = s,
                                                          !.mode = m]]
            /\ running' = AfterLookup(t)
    /\ UNCHANGED <<env, chatbots, bots, disk, memVars, llmVars, mcpVars, retVars>>

\* get_chatbot line 50: chatbots[session_id] = EventHubChatbot(session_id).
\* Without GOOGLE_API_KEY LLMManager() raises, the constructor re-raises and
\* chat_endpoint answers 500.
Create(t) ==
    /\ task[t].pc = "create"
    /\ CanStep(t)
    /\ IF ~env.google
       THEN /\ task' = [task EXCEPT ![t] = [IdleTask EXCEPT !.pc = "done", !.http = 500,
                                                          !.session = task[t].session]]
            /\ running' = 0
            /\ UNCHANGED <<chatbots, bots>>
       ELSE /\ bots' = Append(bots, NewChatbot(env, task[t].session, disk[FilePath(task[t].session)]))
            /\ chatbots' = [chatbots EXCEPT ![task[t].session] = Len(bots) + 1]
            /\ task' = [task EXCEPT ![t].pc = "turn", ![t].bot = Len(bots) + 1,
                                    ![t].before = LoadedMessages(disk[FilePath(task[t].session)])]
            /\ running' = t
    /\ UNCHANGED <<env, disk, memVars, llmVars, mcpVars, retVars>>

\* The retrieval of request t is over: lines 82-89 assign context and
\* sources_used (line 89 runs after every branch of the inner if).
Retrieved2(t, res) ==
    /\ bots' = [bots EXCEPT ![task[t].bot].mcp_available = @ /\ res.mcp_available]
    /\ task' = [task EXCEPT ![t].pc = "prompt",
                            ![t].context = res.context,
                            ![t].contributed = ContributedSources(res.context),
                            ![t].sources_used = <<"current_events">>,
                            ![t].lOut = NoLocalCall, ![t].hOut = "not called",
                            ![t].mOut = NoMcpCall]
    /\ running' = t

\* a handler that persists the error reply without the user message
Failed_ReplyOnly(t, msg) ==
    /\ task' = [task EXCEPT ![t].pc = "save_ai",
                            ![t].response = ErrorReply(msg),
                            ![t].error = msg,
                            ![t].sources_used = <<"error">>,
                            ![t].failed = TRUE,
                            ![t].context = <<>>, ![t].contributed = {},
                            ![t].before = <<>>,
                            ![t].lOut = NoLocalCall, ![t].hOut = "not called",
                            ![t].mOut = NoMcpCall]
    /\ running' = t
    /\ UNCHANGED bots

\* An exception reached line 107: the reply is the error text.
Failed(t, msg) ==
    /\ task' = [task EXCEPT ![t].pc = "save_user",
                            ![t].response = ErrorReply(msg),
                            ![t].error = msg,
                            ![t].sources_used = <<"error">>,
                            ![t].failed = TRUE,
                            ![t].context = <<>>, ![t].contributed = {},
                            ![t].before = <<>>,
                            ![t].lOut = NoLocalCall, ![t].hOut = "not called",
                            ![t].mOut = NoMcpCall]
    /\ running' = t
    /\ UNCHANGED bots

\* The retrieval a request makes once every remote answer is in.
RetrievalResult(t, la, ma, lOut, hOut, mOut, dOut) ==
    IF task[t].mode = "combined"
    THEN GetFormattedContextAsync(la, ma, QueryOf(t), lOut, hOut, mOut, dOut)
    ELSE GetEventsContextOnlyAsync(ma, QueryOf(t), hOut, mOut, dOut)

\* get_response lines 76-89, up to the first await (or to line 92 when the
\* mode awaits nothing).
BeginTurn(t, lOut) ==
    /\ task[t].pc = "turn"
    /\ CanStep(t)
    /\ LET b == bots[task[t].bot]
           mode == task[t].mode
       IN  IF ~b.retriever_available \/ mode = "none"
           THEN /\ task' = [task EXCEPT ![t].pc = "prompt"]
                /\ running' = t
                /\ UNCHANGED bots
           ELSE IF mode = "local"
           THEN LET res == GetLocalContextOnly(b.local_available, b.mcp_available, lOut)
                IN  IF res.raised THEN Failed(t, ExceptionText(res.context[1])) ELSE Retrieved2(t, res)
           ELSE IF ~b.mcp_available
           THEN Retrieved2(t, RetrievalResult(t, b.local_available, FALSE, lOut,
                                              "not called", NoMcpCall, NoDirectCall))
           ELSE /\ task' = [task EXCEPT ![t].pc = "await_health",
                                        ![t].lOut = IF mode = "combined" THEN lOut
                                                    ELSE NoLocalCall]
                /\ running' = 0
                /\ UNCHANGED bots
    /\ UNCHANGED <<env, chatbots, disk, memVars, llmVars, mcpVars, retVars>>

\* The health probe is back; a healthy service is searched next.
HealthDone(t, hOut) ==
    /\ task[t].pc = "await_health"
    /\ running = 0
    /\ IF CheckMcpHealth(hOut)
       THEN /\ task' = [task EXCEPT ![t].pc = "await_mcp", ![t].hOut = hOut]
            /\ running' = 0
            /\ UNCHANGED bots
       ELSE Retrieved2(t, RetrievalResult(t, bots[task[t].bot].local_available, TRUE,
                                          task[t].lOut, hOut, NoMcpCall, NoDirectCall))
    /\ UNCHANGED <<env, chatbots, disk, memVars, llmVars, mcpVars, retVars>>

\* The structured call is back; a failed one is followed by the direct call.
McpDone(t, mOut) ==
    /\ task[t].pc = "await_mcp"
    /\ running = 0
    /\ IF StructuredAttempt(mOut).ok
       THEN Retrieved2(t, RetrievalResult(t, bots[task[t].bot].local_available, TRUE,
                                          task[t].lOut, task[t].hOut, mOut, NoDirectCall))
       ELSE /\ task' = [task EXCEPT ![t].pc = "await_direct", ![t].mOut = mOut]
            /\ running' = 0
            /\ UNCHANGED bots
    /\ UNCHANGED <<env, chatbots, disk, memVars, llmVars, mcpVars, retVars>>

\* The direct call is back.
DirectDone(t, dOut) ==
    /\ task[t].pc = "await_direct"
    /\ running = 0
    /\ Retrieved2(t, RetrievalResult(t, bots[task[t].bot].local_available, TRUE,
                                     task[t].lOut, task[t].hOut, task[t].mOut, dOut))
    /\ UNCHANGED <<env, chatbots, disk, memVars, llmVars, mcpVars, retVars>>

\* lines 92-96: create_messages with get_recent_messages(6); the prompt is
\* assembled, or create_messages raises.
Assembled == [raises |-> FALSE, error |-> <<>>]
PromptRaises(msg) == [raises |-> TRUE, error |-> msg]
PromptOutcomes == {Assembled, PromptRaises(LongError)}
ReadHistory(t, pr) ==
    /\ task[t].pc = "prompt"
    /\ CanStep(t)
    /\ IF pr.raises
       THEN Failed(t, pr.error)
       ELSE /\ task' = [task EXCEPT
                          ![t].pc = "generate",
                          ![t].hist = GetRecentMessages(bots[task[t].bot].messages, HistoryWindow),
                          ![t].seen = bots[task[t].bot].messages]
            /\ running' = t
            /\ UNCHANGED bots
    /\ UNCHANGED <<env, chatbots, disk, memVars, llmVars, mcpVars, retVars>>

\* line 99: response = self.llm.get_response(messages).
Generate(t, pOut, bOut) ==
    /\ task[t].pc = "generate"
    /\ CanStep(t)
    /\ task' = [task EXCEPT ![t].pc = "save_user",
                            ![t].context = <<>>, ![t].before = <<>>,
                            ![t].response =
                                <<LLMGetResponse(bots[task[t].bot].backup_llm, pOut, bOut).text>>]
    /\ running' = AfterGenerate(t)
    /\ UNCHANGED <<env, chatbots, bots, disk, memVars, llmVars, mcpVars, retVars>>

\* memory.add_message of one chatbot: append, trim, save.
Remember(b, m) ==
    LET msgs == TrimmedAppend(bots[b].messages, m, bots[b].max_messages)
    IN  /\ bots' = [bots EXCEPT ![b].messages = msgs]
        /\ disk' = [disk EXCEPT ![FilePath(bots[b].session)] = SaveMemory(msgs)]

\* lines 102 and 109: self.memory.add_user_message(user_input).
SaveUser(t) ==
    /\ task[t].pc = "save_user"
    /\ CanStep(t)
    /\ Remember(task[t].bot, HumanMessage(<<QueryOf(t)>>))
    /\ task' = [task EXCEPT ![t].pc = "save_ai"]
    /\ running' = t
    /\ UNCHANGED <<env, chatbots, memVars, llmVars, mcpVars, retVars>>

\* lines 103-105 and 110-111, then chat_endpoint returns the ChatResponse.
SaveAI(t) ==
    /\ task[t].pc = "save_ai"
    /\ CanStep(t)
    /\ Remember(task[t].bot, AIMessage(task[t].response))
    /\ task' = [task EXCEPT ![t] = [IdleTask EXCEPT !.pc = "done", !.http = 200,
                                                   !.session = task[t].session,
                                                   !.response = task[t].response]]
    /\ running' = 0
    /\ UNCHANGED <<env, chatbots, memVars, llmVars, mcpVars, retVars>>

Next ==
    \/ \E e \in Envs : Start(e)
    \/ \E t \in Tasks, s \in Sessions, m \in RetrievalModes : Lookup(t, s, m)
    \/ \E t \in Tasks : Create(t)
    \/ \E t \in Tasks, lOut \in SrvLocalOutcomes : BeginTurn(t, lOut)
    \/ \E t \in Tasks, hOut \in SrvHealthOutcomes : HealthDone(t, hOut)
    \/ \E t \in Tasks : \E mOut \in SrvMcpOutcomes(QueryOf(t)) : McpDone(t, mOut)
    \/ \E t \in Tasks, dOut \in SrvDirectOutcomes : DirectDone(t, dOut)
    \/ \E t \in Tasks, pr \in PromptOutcomes : ReadHistory(t, pr)
    \/ \E t \in Tasks : \E o \in SrvLLMOutcomes : Generate(t, o[1], o[2])
    \/ \E t \in Tasks : SaveUser(t)
    \/ \E t \in Tasks : SaveAI(t)

\* chatbots[s].memory.clear_memory(), called while no request holds the loop.
Clear(s) ==
    /\ running = 0
    /\ chatbots[s] # 0
    /\ bots' = [bots EXCEPT ![chatbots[s]].messages = <<>>]
    /\ disk' = [disk EXCEPT ![FilePath(s)] = SaveMemory(<<>>)]
    /\ UNCHANGED <<env, chatbots, running, task, memVars, llmVars, mcpVars, retVars>>

\* The server asked with any session id, and memories cleared in between.
IsoModes == {"none", "events"}
IsoNext ==
    \/ \E e \in Envs : Start(e)
    \/ \E t \in Tasks, s \in SessionIds, m \in IsoModes : Lookup(t, s, m)
    \/ \E t \in Tasks : Create(t)
    \/ \E t \in Tasks, lOut \in SrvLocalOutcomes : BeginTurn(t, lOut)
    \/ \E t \in Tasks, hOut \in SrvHealthOutcomes : HealthDone(t, hOut)
    \/ \E t \in Tasks : \E mOut \in SrvMcpOutcomes(QueryOf(t)) : McpDone(t, mOut)
    \/ \E t \in Tasks, dOut \in SrvDirectOutcomes : DirectDone(t, dOut)
    \/ \E t \in Tasks, pr \in PromptOutcomes : ReadHistory(t, pr)
    \/ \E t \in Tasks : \E o \in SrvLLMOutcomes : Generate(t, o[1], o[2])
    \/ \E t \in Tasks : SaveUser(t)
    \/ \E t \in Tasks : SaveAI(t)
    \/ \E s \in SessionIds : Clear(s)

AllInit == MemInit /\ LLMInit /\ McpInit /\ RetInit /\ SrvInit

Init == AllInit

Spec == Init /\ [][Next]_vars

SpecIso == Init /\ [][IsoNext]_vars

SpecRet == AllInit /\ [][RetNext]_vars

SpecMcp == AllInit /\ [][McpNext]_vars

SpecLLM == AllInit /\ [][LLMNext]_vars

SpecMem == AllInit /\ [][MemNext]_vars
SpecStore == AllInit /\ [][StoreNext]_vars

(***************************************************************************)
(* C1: in every reachable state of a session memory, after construction    *)
(* (load) and after any sequence of add_message and clear_memory calls,    *)
(* len(messages) <= max_messages.                                          *)
(***************************************************************************)
C1_LenWithinCap == memLive => Len(messages) <= max_messages

\* The same statement for positive caps only: it separates the load path
\* (load_memory does not trim) from the s[-0:] slice of a cap of 0.
C1_LenWithinPositiveCap ==
    (memLive /\ max_messages >= 1) => Len(messages) <= max_messages

(***************************************************************************)
(* C2: for a session that starts empty, after N appends with cap M the     *)
(* stored list has length min(N, M) and is the last min(N, M) messages     *)
(* appended, in order.                                                     *)
(***************************************************************************)
C2_LastMinAppended ==
    (memLive /\ startedEmpty) =>
        /\ Len(messages) = Min(Len(appended), max_messages)
        /\ messages = LastN(appended, Min(Len(appended), max_messages))

\* C2 for caps of at least 1, the case the slice handles as intended.
C2_LastMinAppendedPositiveCap ==
    (memLive /\ startedEmpty /\ max_messages >= 1) =>
        /\ Len(messages) = Min(Len(appended), max_messages)
        /\ messages = LastN(appended, Min(Len(appended), max_messages))

(***************************************************************************)
(* C5: in combined retrieval a failure of one source never suppresses the  *)
(* other: whenever the local retriever yields content the Knowledge Base   *)
(* block is in the output whatever the remote side did, and whenever the   *)
(* remote search yields events the Current Events block is in the output   *)
(* whatever the local side did.                                            *)
(***************************************************************************)
InText(piece, text) == \E j \in 1..Len(text) : text[j] = piece

\* the local retriever was usable and its search returned documents
LocalYieldsContent(c) == c.la /\ c.lOut.kind = "docs" /\ c.lOut.docs # <<>>

\* the search was made and its result carries a non-empty list of event records
RemoteYieldsEvents(c) ==
    /\ c.ma /\ c.hOut = "healthy"
    /\ LET found == SearchEvents(c.query, c.mOut, c.dOut).result
       IN  /\ ~Has(found, "error")
           /\ Has(found, "events") /\ found.events # <<>>
           /\ \A j \in 1..Len(found.events) : found.events[j].obj

C5_NoSuppression ==
    retLast.op = "combined" =>
        /\ (LocalYieldsContent(retLast) => InText(KnowledgeBaseLabel, retLast.res.context))
        /\ (RemoteYieldsEvents(retLast) => InText(CurrentEventsLabel, retLast.res.context))

\* C5 for the queries that do not quote the phrase "No events found": the
\* part of the claim that is about one source failing.
C5_NoSuppressionPlainQuery ==
    (retLast.op = "combined" /\ ~HoldsNoEventsFound(retLast.query)) =>
        /\ (LocalYieldsContent(retLast) => InText(KnowledgeBaseLabel, retLast.res.context))
        /\ (RemoteYieldsEvents(retLast) => InText(CurrentEventsLabel, retLast.res.context))

(***************************************************************************)
(* C7: in LLMManager.get_response the primary model is always invoked      *)
(* first, and the backup model is invoked only if the primary invocation   *)
(* failed and a backup is configured; never after a primary success.       *)
(***************************************************************************)
C7_PrimaryThenBackup ==
    \A i \in 1..Len(llmLog) :
        LET e == llmLog[i]
            calls == e.res.calls
        IN  /\ Len(calls) \in {1, 2}
            /\ calls[1] = "primary"
            /\ (Len(calls) = 2 => calls[2] = "backup" /\ ~e.pOut.ok /\ e.backup)
            /\ (e.pOut.ok => calls = <<"primary">>)

\* a call whose primary failed and whose backup was then invoked, and a call
\* whose primary succeeded
C7_Witness ==
    /\ \E i \in 1..Len(llmLog) :
           ~llmLog[i].pOut.ok /\ llmLog[i].res.calls = <<"primary", "backup">>
    /\ \E i \in 1..Len(llmLog) : llmLog[i].pOut.ok /\ llmLog[i].backup

(***************************************************************************)
(* C8: LLMManager.get_response never raises: when the primary fails and    *)
(* the backup fails too or is not configured it returns the fixed degraded *)
(* string; otherwise it returns the text of the first provider that        *)
(* succeeded.                                                              *)
(***************************************************************************)
C8_NeverRaises ==
    \A i \in 1..Len(llmLog) :
        LET e == llmLog[i]
        IN  /\ ~e.res.raised
            /\ (e.pOut.ok => e.res.text = e.pOut.text)
            /\ (~e.pOut.ok /\ e.backup /\ e.bOut.ok => e.res.text = e.bOut.text)
            /\ (~e.pOut.ok /\ (~e.backup \/ ~e.bOut.ok) => e.res.text = DegradedReply)

\* a call where the primary and the configured backup both failed
C8_Witness ==
    \E i \in 1..Len(llmLog) :
        /\ ~llmLog[i].pOut.ok /\ llmLog[i].backup /\ ~llmLog[i].bOut.ok
        /\ llmLog[i].res.text = DegradedReply

C9_ToolErrorReturnedAsIs ==
    /\ mcpLast.op = "search"
    /\ mcpLast.mOut = McpOut("payload", ToolError)
    /\ mcpLast.res.calls = <<"mcp">>
    /\ mcpLast.res.result = ToolError

(***************************************************************************)
(* C10: search_events and get_all_events never raise; when the structured  *)
(* and the direct path both fail the call returns an error result, a       *)
(* record carrying an "error" message.                                     *)
(***************************************************************************)
DirectFailed(out) == out.kind \in TransportFailures \cup {"body_not_object"}

C10_ErrorResultNotRaise ==
    mcpLast.op \in {"search", "get_all"} =>
        /\ ~mcpLast.res.raised
        /\ ( ( /\ mcpLast.mOut.kind \in McpFailureKinds
               /\ DirectFailed(mcpLast.dOut)
               /\ (mcpLast.op = "get_all" => mcpLast.aOut.kind \in McpFailureKinds) )
             => /\ Has(mcpLast.res.result, "error")
                /\ mcpLast.res.result.error # <<>> )

\* get_all_events with the structured call, the search fallback's
\* structured call and its direct call all failing
C10_Witness ==
    /\ mcpLast.op = "get_all"
    /\ mcpLast.aOut.kind = "rpc_error"
    /\ mcpLast.mOut.kind = "timeout"
    /\ mcpLast.dOut.kind = "http_status"
    /\ mcpLast.res.calls = <<"mcp", "mcp", "direct">>
    /\ Has(mcpLast.res.result, "error")


(***************************************************************************)
(* Claims about the process serving /chat (specification Spec)             *)
(***************************************************************************)
\* the requests of session s that have answered 200
Answered(s) == {t \in Tasks : task[t].pc = "done" /\ task[t].http = 200 /\ task[t].session = s}
\* the requests of session s between their two appends
Saving(s) == {t \in Tasks : task[t].pc = "save_ai" /\ task[t].session = s}
\* the position of the user message of request t in a log (0: not there)
PositionOf(t, log) ==
    IF \E j \in 1..Len(log) : log[j] = HumanMessage(<<QueryOf(t)>>)
    THEN CHOOSE j \in 1..Len(log) : log[j] = HumanMessage(<<QueryOf(t)>>)
    ELSE 0

\* C3: concurrent turns of one session are serialized.  (a) Between the read
\* of the history for the prompt and the turn's own append, the log of the
\* session is the one the turn read.  (b) Between its two appends the log is
\* what the turn read plus its user message.  (c) Every answered turn has
\* its user message in the log, immediately followed by a reply, and the log
\* holds nothing else: its length is two per answered turn plus one per turn
\* between its appends (no append is lost).  (d) The persisted record is the
\* log.
C3_TurnsSerialized ==
    /\ \A t \in Tasks :
        /\ (task[t].pc = "generate" \/ (task[t].pc = "save_user" /\ ~task[t].failed))
            => /\ bots[task[t].bot].messages = task[t].seen
               /\ task[t].hist = GetRecentMessages(bots[task[t].bot].messages, HistoryWindow)
        /\ (task[t].pc = "save_ai" /\ ~task[t].failed)
            => bots[task[t].bot].messages
                  = Append(task[t].seen, HumanMessage(<<QueryOf(t)>>))
        /\ task[t].pc = "save_ai"
            => bots[task[t].bot].messages[Len(bots[task[t].bot].messages)]
                  = HumanMessage(<<QueryOf(t)>>)
    /\ \A s \in Sessions : chatbots[s] # 0 =>
        LET log == bots[chatbots[s]].messages
        IN  /\ Len(log) = 2 * Cardinality(Answered(s)) + Cardinality(Saving(s))
            /\ \A t \in Answered(s) :
                 /\ PositionOf(t, log) # 0
                 /\ PositionOf(t, log) < Len(log)
                 /\ log[PositionOf(t, log) + 1].type = "ai"
            /\ log # <<>> => disk[FilePath(s)] = SaveMemory(log)

\* Two turns of one session overlap: the later request is between its two
\* appends while the earlier one still awaits the remote service.
C3_Witness ==
    \E t, u \in Tasks :
        /\ u < t
        /\ task[t].session = task[u].session
        /\ task[u].pc \in {"await_health", "await_mcp", "await_direct"}
        /\ task[t].pc = "save_ai"
        /\ ~task[t].failed
        /\ bots[task[t].bot].messages = <<HumanMessage(<<QueryOf(t)>>)>>

\* C4: get_chatbot makes at most one chatbot per session id, the one the
\* dict holds, and every request of that session works on it.
C4_OneHandlePerSession ==
    /\ \A s \in Sessions :
          /\ Cardinality({b \in 1..Len(bots) : bots[b].session = s}) <= 1
          /\ chatbots[s] # 0 => bots[chatbots[s]].session = s
          /\ (\E b \in 1..Len(bots) : bots[b].session = s) => chatbots[s] # 0
    /\ \A t \in Tasks :
          task[t].pc \notin {"idle", "create", "done"} => task[t].bot = chatbots[task[t].session]

\* Two first requests of one session are in flight together, on the one
\* chatbot of that session.
C4_Witness ==
    \E t, u \in Tasks :
        /\ t # u
        /\ task[t].session = task[u].session
        /\ task[t].pc \in {"await_health", "await_mcp", "await_direct"}
        /\ task[u].pc \in {"await_health", "await_mcp", "await_direct"}
        /\ task[t].bot = task[u].bot
        /\ bots[task[t].bot].messages = <<>>
        /\ Answered(task[t].session) = {}

\* the sources a list names
Named(list) == {list[j] : j \in 1..Len(list)}

\* C6: the sources_used a turn returns from its try block are exactly the
\* sources whose content is in the context of that turn.
C6_SourcesAreContributors ==
    \A t \in Tasks :
        (task[t].pc \in {"save_user", "save_ai"} /\ ~task[t].failed) =>
            Named(task[t].sources_used) = task[t].contributed

\* C6, the scenario of the specification: a combined turn whose context has
\* a chunk of the knowledge base and the events of the remote service names
\* both sources.
C6_CombinedNamesBoth ==
    \A t \in Tasks :
        (/\ task[t].pc \in {"save_user", "save_ai"}
         /\ task[t].mode = "combined"
         /\ task[t].contributed = {"knowledge_base", "current_events"})
            => Named(task[t].sources_used) = {"knowledge_base", "current_events"}


\* the user message of request t is in the log exactly once
OnceIn(t, log) ==
    Cardinality({j \in 1..Len(log) : log[j] = HumanMessage(<<QueryOf(t)>>)}) = 1

\* C11: every turn that get_response has finished, on the success path and
\* on the failure paths, left exactly its user message and then its reply in
\* the log of the session: the user message is there once, the entry after
\* it is the assistant message with the reply text returned to the caller,
\* the log holds two entries per finished turn, and the persisted record
\* holds the same entries.
C11_UserThenReplyPerTurn ==
    \A s \in Sessions : chatbots[s] # 0 =>
        LET log == bots[chatbots[s]].messages
        IN  /\ Len(log) = 2 * Cardinality(Answered(s)) + Cardinality(Saving(s))
            /\ \A t \in Answered(s) :
                 /\ OnceIn(t, log)
                 /\ PositionOf(t, log) < Len(log)
                 /\ log[PositionOf(t, log) + 1] = AIMessage(task[t].response)
                 /\ LoadedMessages(disk[FilePath(s)])[PositionOf(t, log) + 1]
                       = AIMessage(task[t].response)

\* A turn whose prompt assembly raised and a turn whose generation fell to
\* the degraded reply have both finished on one session.
C11_Witness ==
    \E t, u \in Tasks :
        /\ t # u
        /\ task[t].session = task[u].session
        /\ t \in Answered(task[t].session)
        /\ u \in Answered(task[t].session)
        /\ task[t].response = ErrorReply(LongError)
        /\ task[u].response = <<DegradedReply>>
        /\ Len(bots[chatbots[task[t].session]].messages) = 4

\* C12: a turn in which an exception reached the handler of get_response
\* does not raise: it goes on to persist the pair, and before the first of
\* the two appends its reply is the error sentence around a prefix of the
\* error text of at most 100 characters.
C12_ErrorReplyCapped ==
    \A t \in Tasks : task[t].failed =>
        /\ task[t].pc \in {"save_user", "save_ai"}
        /\ Len(task[t].response) <= ErrorCap + 2
        /\ task[t].response[1] = ErrorPrefix
        /\ task[t].response[Len(task[t].response)] = ErrorSuffix
        /\ \A j \in 2..(Len(task[t].response) - 1) : task[t].response[j] = task[t].error[j - 1]
        /\ Len(task[t].response) - 2 = Min(Len(task[t].error), ErrorCap)
        /\ task[t].pc = "save_user" =>
              PositionOf(t, bots[task[t].bot].messages) = 0

\* A turn whose error text is longer than the cap is about to persist its
\* pair.
C12_Witness ==
    \E t \in Tasks :
        /\ task[t].failed
        /\ task[t].pc = "save_user"
        /\ Len(task[t].error) > ErrorCap
        /\ Len(task[t].response) = ErrorCap + 2

\* C13: every /chat request ends with a normal success response.
C13_AlwaysSuccess ==
    \A t \in Tasks : task[t].pc = "done" => task[t].http = 200

\* C13 holds when GOOGLE_API_KEY is set: every request then answers 200 with
\* a reply text.
C13_SuccessWithGoogleKey ==
    \A t \in Tasks :
        (task[t].pc = "done" /\ env.google) => (task[t].http = 200 /\ task[t].response # <<>>)


(***************************************************************************)
(* Claims about the persisted record (specifications SpecMem, SpecStore)   *)
(***************************************************************************)
\* C14: saving a list of user and assistant messages and loading it in a
\* fresh object reproduces the list: the record save_memory writes for the
\* in-memory list loads back as that list, and an object constructed over a
\* written record holds, entry by entry and in order, the role and the
\* content of the record.
C14_RoundTrip ==
    /\ memLive => LoadedMessages(SaveMemory(messages)) = messages
    /\ (memLive /\ lastOp.op = "construct" /\ file.state = "ok") =>
          /\ Len(messages) = Len(file.entries)
          /\ \A i \in 1..Len(messages) :
                /\ messages[i].type = file.entries[i].type
                /\ messages[i].content = file.entries[i].content

\* A fresh object has loaded a record that holds messages of both roles,
\* written by the object before it.
C14_Witness ==
    /\ memLive
    /\ lastOp.op = "construct"
    /\ file = SaveMemory(messages)
    /\ Len(messages) >= 2
    /\ \E i, j \in 1..Len(messages) : messages[i].type = "human" /\ messages[j].type = "ai"

\* C15: once add_message or clear_memory has returned, the persisted record
\* holds exactly the in-memory list.
C15_WriteThrough ==
    (memLive /\ lastOp.op \in {"add_message", "clear_memory"}) => file = SaveMemory(messages)

\* C15 holds for the operations whose write completed.
C15_WriteThroughWhenWritten ==
    (memLive /\ lastOp.op \in {"add_message", "clear_memory"} /\ lastOp.write = "written")
        => file = SaveMemory(messages)

\* a record with an entry that is no user or assistant message
HasMalformedEntry(f) ==
    f.state = "ok" /\ \E i \in 1..Len(f.entries) : f.entries[i].type \notin {"human", "ai"}

\* C16: an object constructed over a missing or corrupt record (unparseable,
\* or with entries that are no messages) starts with an empty history.
C16_LoadFailsOpen ==
    (memLive /\ lastOp.op = "construct" /\ (file.state # "ok" \/ HasMalformedEntry(file)))
        => messages = <<>>

\* C16 holds for the missing record, the unparseable record and the records
\* with an entry on which the loop of load_memory raises.
C16_EmptyWhenLoadRaises ==
    (memLive /\ lastOp.op = "construct"
     /\ (file.state # "ok" \/ \E i \in 1..Len(file.entries) : LoadRaises(file.entries[i])))
        => messages = <<>>


(***************************************************************************)
(* Claims about the retrieval modes (specification SpecRet)                *)
(***************************************************************************)
\* the remote source gives nothing: the client is marked unavailable, the
\* probe is not healthy, or the search result is an empty list of events
RemoteYieldsNothing(c) ==
    \/ ~c.ma
    \/ c.hOut # "healthy"
    \/ LET found == SearchEvents(c.query, c.mOut, c.dOut).result
       IN  ~Has(found, "error") /\ (~Has(found, "events") \/ found.events = <<>>)

\* C17: a combined retrieval to which neither source contributes (each one
\* empty, unavailable or unhealthy) returns the one sentinel of line 77, and
\* that sentinel is neither the local retriever's nor the remote client's.
C17_DistinctEmptySentinel ==
    (retLast.op = "combined" /\ ~LocalYieldsContent(retLast) /\ RemoteYieldsNothing(retLast))
        => /\ ~retLast.res.raised
           /\ retLast.res.blocks = <<>>
           /\ retLast.res.context = <<NoContextAnySource>>
           /\ retLast.res.context # <<NoLocalContext>>
           /\ retLast.res.context # <<NoEventsFound>>

\* Both sources were asked and both came back empty: the local search with
\* no documents, the healthy remote service with no events.
C17_Witness ==
    /\ retLast.op = "combined"
    /\ retLast.la /\ retLast.lOut = LocalOut("docs", <<>>)
    /\ retLast.ma /\ retLast.hOut = "healthy"
    /\ retLast.res.calls # <<"health">>
    /\ RemoteYieldsNothing(retLast)
    /\ retLast.res.context = <<NoContextAnySource>>

\* C18: a combined retrieval with the local retriever unavailable and the
\* remote service healthy and returning events gives only the Current Events
\* block: its label, no Knowledge Base label, no separator.
C18_OnlyEventsBlock ==
    (retLast.op = "combined" /\ ~retLast.la /\ RemoteYieldsEvents(retLast))
        => /\ retLast.res.blocks = <<CurrentEventsLabel>>
           /\ InText(CurrentEventsLabel, retLast.res.context)
           /\ ~InText(KnowledgeBaseLabel, retLast.res.context)
           /\ ~InText(Separator, retLast.res.context)

\* C18 for the queries that do not quote the phrase "No events found".
C18_OnlyEventsBlockPlainQuery ==
    (retLast.op = "combined" /\ ~retLast.la /\ RemoteYieldsEvents(retLast)
     /\ ~HoldsNoEventsFound(retLast.query))
        => /\ retLast.res.blocks = <<CurrentEventsLabel>>
           /\ ~InText(KnowledgeBaseLabel, retLast.res.context)
           /\ ~InText(Separator, retLast.res.context)

\* C18, the sources of the turn: a combined turn returns [current_events].
C18_CombinedSources ==
    \A t \in Tasks :
        (task[t].pc \in {"save_user", "save_ai"} /\ task[t].mode = "combined" /\ ~task[t].failed)
            => task[t].sources_used = <<"current_events">>

\* C19: a local-only retrieval whose local retriever failed (it was not
\* constructed, or its similarity search raises) returns the fixed sentence
\* of line 103 and does not raise.
C19_LocalFailureFixedString ==
    (retLast.op = "local" /\ (~retLast.la \/ retLast.lOut.kind = "search_raises"))
        => /\ ~retLast.res.raised
           /\ retLast.res.context = <<LocalNotAvailable>>

\* C19 in two parts that hold: neither failure raises, and the retriever
\* that was not constructed gives the fixed sentence.
C19_LocalFailureNoRaise ==
    (retLast.op = "local" /\ (~retLast.la \/ retLast.lOut.kind = "search_raises"))
        => /\ ~retLast.res.raised
           /\ ~retLast.la => retLast.res.context = <<LocalNotAvailable>>

\* C20: an events-only retrieval for which the remote service counts as
\* unavailable (the probe is not healthy, or the client is marked
\* unavailable) returns one and the same fixed sentence and does not raise.
C20_OneFixedString ==
    (retLast.op = "events" /\ (~retLast.ma \/ retLast.hOut # "healthy"))
        => /\ ~retLast.res.raised
           /\ retLast.res.context = <<EventsNotAvailable>>

\* C20 as it holds: no raise, and a fixed sentence for each of the two cases.
C20_FixedStringPerCase ==
    (retLast.op = "events" /\ (~retLast.ma \/ retLast.hOut # "healthy"))
        => /\ ~retLast.res.raised
           /\ retLast.res.context =
                 IF ~retLast.ma THEN <<EventsNotAvailable>> ELSE <<EventsNotHealthy>>


(***************************************************************************)
(* Claims about streaming (specification SpecLLM)                          *)
(***************************************************************************)
\* the primary stream failed and the backup stream failed or is not there
StreamTotalFailure(e) ==
    e.pOut.kind # "chunks" /\ (~e.backup \/ e.bOut.kind # "chunks")

\* C21: stream_response never raises, neither at the call nor while its
\* stream is consumed, and on total failure its stream is the one chunk
\* that get_response returns as its degraded reply.
C21_StreamNeverRaises ==
    streamLast.op = "stream" =>
        /\ ~streamLast.res.raised
        /\ ~streamLast.res.fails
        /\ StreamTotalFailure(streamLast) => streamLast.res.chunks = <<DegradedReply>>

\* C21, the order of the providers: the primary stream is asked first and
\* the backup stream only when that call raised and a backup is configured.
C21_StreamOrder ==
    streamLast.op = "stream" =>
        /\ streamLast.res.calls[1] = "primary"
        /\ streamLast.res.calls = <<"primary", "backup">>
              <=> (streamLast.pOut.kind = "raises at call" /\ streamLast.backup)


(***************************************************************************)
(* Claims about the remote client (specification SpecMcp)                  *)
(***************************************************************************)
\* the shape the direct path builds, lines 120-124
CanonicalShape(result, query) ==
    /\ result.keys = {"query", "results_count", "events"}
    /\ result.query = query
    /\ Len(result.events) = Min(result.results_count, TopK)

\* C22: a search_events result that is no error has the shape {query,
\* results_count, events}, with the events the first 10 of results_count,
\* whichever path produced it.
C22_SameShapeOnBothPaths ==
    (mcpLast.op = "search" /\ ~Has(mcpLast.res.result, "error"))
        => CanonicalShape(mcpLast.res.result, mcpLast.query)

\* C22 as it holds: the direct path always builds that shape, and the
\* structured path returns the payload of the service as it came.
C22_DirectBuildsStructuredPassesThrough ==
    mcpLast.op = "search" =>
        /\ (mcpLast.res.calls = <<"mcp", "direct">> /\ ~Has(mcpLast.res.result, "error"))
              => CanonicalShape(mcpLast.res.result, mcpLast.query)
        /\ (mcpLast.res.calls = <<"mcp">> /\ mcpLast.mOut.kind = "payload")
              => mcpLast.res.result = mcpLast.mOut.payload

\* C23: a synchronous wrapper called while a loop is running raises the
\* RuntimeError of the wrapper, makes no local or remote call and leaves
\* mcp_available as it was; called with no loop running it returns what the
\* coroutine returns for the same inputs.
C23_SyncWrappersFailFast ==
    /\ retLast.op = "sync_combined" =>
          IF retLast.loop
          THEN /\ retLast.res.raised /\ retLast.error = CannotUseSync
               /\ retLast.res.calls = <<>> /\ retLast.res.blocks = <<>>
               /\ retLast.res.mcp_available = retLast.ma
          ELSE /\ retLast.error = NoError
               /\ retLast.res = GetFormattedContextAsync(retLast.la, retLast.ma, retLast.query,
                                     retLast.lOut, retLast.hOut, retLast.mOut, retLast.dOut)
    /\ retLast.op = "sync_events" =>
          IF retLast.loop
          THEN /\ retLast.res.raised /\ retLast.error = CannotUseSync
               /\ retLast.res.calls = <<>>
               /\ retLast.res.mcp_available = retLast.ma
          ELSE /\ retLast.error = NoError
               /\ retLast.res = GetEventsContextOnlyAsync(retLast.ma, retLast.query,
                                     retLast.hOut, retLast.mOut, retLast.dOut)

\* The combined wrapper was called inside a running loop while both sources
\* were available and the remote side would have answered.
C23_Witness ==
    /\ retLast.op = "sync_combined" /\ retLast.loop /\ retLast.ma /\ retLast.la
    /\ retLast.hOut = "healthy" /\ retLast.mOut.kind = "payload"
    /\ retLast.res.raised

\* C24: get_recent_messages(n), n >= 0, returns at most n messages: the last
\* min(n, len) messages of the log, oldest first.
C24_RecentAtMostCount ==
    lastOp.op = "get_recent_messages" =>
        /\ Len(lastOp.got) <= lastOp.count
        /\ lastOp.got = LastN(messages, Min(lastOp.count, Len(messages)))

\* C24 as it holds: for a count of at least 1 the result is the last
\* min(count, len) messages; for a count of 0 it is the whole log.
C24_RecentForPositiveCount ==
    lastOp.op = "get_recent_messages" =>
        lastOp.got = IF lastOp.count = 0 THEN messages
                     ELSE LastN(messages, Min(lastOp.count, Len(messages)))

\* The search result an events-only retrieval handed to format_events_for_llm,
\* the events of it that are rendered, and the text that came back.
Found == SearchEvents(retLast.query, retLast.mOut, retLast.dOut).result
Shown == FirstK(Found.events)
EventsRendered ==
    /\ retLast.op = "events" /\ retLast.ma /\ retLast.hOut = "healthy"
    /\ ~Has(Found, "error") /\ Has(Found, "events") /\ Found.events # <<>>
    /\ FormatEventsForLLM(Found).ok
Count(text, token) == Cardinality({j \in 1..Len(text) : text[j] = token})
Having(events, field) == {j \in 1..Len(events) : field \in events[j].keys}
Set(events, field) == {j \in Having(events, field) : events[j][field] # ""}
FieldLabels ==
    [location |-> "Location: ", startDateTime |-> "Date: ", category |-> "Category: ",
     organizer |-> "Organizer: ", tags |-> "Tags: "]
PriceLines(text, events) ==
    /\ Count(text, "Price: Free") = Cardinality({j \in Having(events, "isFree") : events[j].isFree})
    /\ Count(text, "Price: $") =
          Cardinality({j \in Set(events, "price") : ~(j \in Having(events, "isFree") /\ events[j].isFree)})
    /\ Count(text, "Price: Free") + Count(text, "Price: $") + Count(text, "Price: TBA")
          = Len(events)

\* C25: format_events_for_llm renders at most 10 numbered entries; a location,
\* date, category, organizer or tags line is rendered only for an event that
\* has the field; every entry has exactly one price line: Free when isFree is
\* true, else $amount when a price is present, else TBA.
C25_OptionalLinesOnlyWhenPresent ==
    EventsRendered =>
        LET text == retLast.res.context
        IN  /\ Count(text, ". ") = Len(Shown) /\ Len(Shown) <= TopK
            /\ \A f \in DOMAIN FieldLabels :
                   Count(text, FieldLabels[f]) <= Cardinality(Having(Shown, f))
            /\ PriceLines(text, Shown)

\* C25 as it holds: at most 10 entries and one price line each as stated; an
\* organizer or tags line exactly for the events whose field is present and
\* not empty; a location, date or category line for those and also, with the
\* placeholder 'Location TBA', 'Date TBA' or 'Uncategorized', for every event
\* that lacks the field.
C25_PlaceholderWhenAbsent ==
    EventsRendered =>
        LET text == retLast.res.context
            absent(f) == (1..Len(Shown)) \ Having(Shown, f)
        IN  /\ Count(text, ". ") = Len(Shown) /\ Len(Shown) <= TopK
            /\ \A f \in {"organizer", "tags"} :
                   Count(text, FieldLabels[f]) = Cardinality(Set(Shown, f))
            /\ \A f \in {"location", "startDateTime", "category"} :
                   Count(text, FieldLabels[f]) = Cardinality(Set(Shown, f) \cup absent(f))
            /\ Count(text, "Location TBA") = Cardinality(absent("location"))
            /\ Count(text, "Date TBA") = Cardinality(absent("startDateTime"))
            /\ Count(text, "Uncategorized") = Cardinality(absent("category"))
            /\ PriceLines(text, Shown)

\* C26: a combined retrieval carries a Current Events block only when the
\* remote search yielded event records: an error result (both paths failed)
\* and an empty list of events contribute no block.
C26_EventsBlockOnlyFromContent ==
    retLast.op = "combined" =>
        (InText(CurrentEventsLabel, retLast.res.context) => RemoteYieldsEvents(retLast))

\* C26 as it holds: the block is there only after a search behind a healthy
\* probe, and then its body is either rendered events or the text of an
\* error result; an empty list of events never contributes a block.
C26_EventsOrErrorText ==
    retLast.op = "combined" =>
        /\ InText(CurrentEventsLabel, retLast.res.context) =>
               /\ retLast.ma /\ retLast.hOut = "healthy"
               /\ RemoteYieldsEvents(retLast) \/ Has(Found, "error")
        /\ (RemoteYieldsNothing(retLast) => ~InText(CurrentEventsLabel, retLast.res.context))

\* A request whose turn is under way, and the places where a turn waits for
\* the network: the probe, the two search calls, the model's reply.
InTurn(t) == task[t].pc \notin {"idle", "done"}
AwaitingRetrieval(t) == task[t].pc \in {"await_health", "await_mcp", "await_direct"}
AwaitingGeneration(t) == task[t].pc = "generate"

\* C27: while the turn of one session waits on retrieval or on generation it
\* does not hold the loop, so a turn of another session that is under way can
\* take its next step.
C27_OtherSessionsProgress ==
    \A t, u \in Tasks :
        (/\ t # u /\ InTurn(u) /\ task[u].session # task[t].session
         /\ AwaitingRetrieval(t) \/ AwaitingGeneration(t))
            => running # t

\* C27 as it holds: a turn waiting on retrieval never holds the loop; a turn
\* waiting on the model's reply always does, and no other request steps
\* until the reply is back.
C27_RetrievalYieldsGenerationBlocks ==
    \A t \in Tasks :
        /\ AwaitingRetrieval(t) => running # t
        /\ AwaitingGeneration(t) => running = t

\* C28: the history a turn puts in its prompt is the last 6 messages of the
\* session log as it was when the turn began, before its retrieval.
C28_HistoryReadBeforeRetrieval ==
    \A t \in Tasks :
        task[t].pc = "generate" =>
            task[t].hist = GetRecentMessages(task[t].before, HistoryWindow)

\* C28 as it holds: the history is read after the retrieval, when the prompt
\* is assembled, so it is the last 6 messages of the log as it is when the
\* generation call is made; it is the log of the turn's beginning whenever
\* the retrieval did not wait for the remote service.
C28_HistoryReadAtPromptAssembly ==
    \A t \in Tasks :
        task[t].pc = "generate" =>
            /\ task[t].hist = GetRecentMessages(bots[task[t].bot].messages, HistoryWindow)
            /\ (task[t].mode \in {"none", "local"} \/ ~bots[task[t].bot].mcp_available)
                  => task[t].hist = GetRecentMessages(task[t].before, HistoryWindow)

\* The remote steps of the last retrieval raised past the client: the probe
\* was healthy, the search returned, and formatting its result raised.
RemoteStepsRaised(c) ==
    /\ c.op \in {"combined", "events", "sync_combined", "sync_events"} /\ ~c.res.raised
    /\ c.ma /\ c.hOut = "healthy"
    /\ ~FormatEventsForLLM(SearchEvents(c.query, c.mOut, c.dOut).result).ok

\* C29: mcp_available is True after construction; a retrieval turns it False
\* only when an exception escaped its remote steps; nothing turns it True
\* again; a retrieval that finds it False makes no remote call, and an
\* events-only one returns 'Event search service not available.'.
C29_FlagMonotone ==
    [][/\ (~retLive /\ retLive') => mcp_available'
       /\ retLive =>
             /\ mcp_available' => mcp_available
             /\ (mcp_available /\ ~mcp_available') => RemoteStepsRaised(retLast')
             /\ (retLast'.op # "none" /\ ~retLast'.ma) =>
                    /\ retLast'.res.calls = <<>>
                    /\ ~retLast'.res.mcp_available
                    /\ ~InText(CurrentEventsLabel, retLast'.res.context)
                    /\ (retLast'.op = "events" \/ (retLast'.op = "sync_events" /\ ~retLast'.loop))
                          => retLast'.res.context = <<EventsNotAvailable>>]_vars

\* The flag is False and an events-only retrieval was made while the service
\* would have answered healthy.
C29_Witness ==
    /\ retLive /\ ~mcp_available
    /\ retLast.op = "events" /\ ~retLast.ma /\ retLast.hOut = "healthy"
    /\ retLast.res.context = <<EventsNotAvailable>>

\* The retrieval c ran its coroutine: a combined or events-only retrieval
\* that was awaited, or made through a wrapper outside a loop.
RanRemoteSteps(c) ==
    \/ c.op \in {"combined", "events"}
    \/ c.op \in {"sync_combined", "sync_events"} /\ ~c.loop
Searched(c) == InText("mcp", c.res.calls) \/ InText("direct", c.res.calls)
ProbedUnhealthy(c) == RanRemoteSteps(c) /\ c.ma /\ c.hOut # "healthy"

\* C30: a combined or events-only retrieval calls search_events only after
\* its own probe answered healthy; after an unhealthy probe (an error answer
\* or an exception inside the probe) it makes no search call and leaves
\* mcp_available True, and the retrieval after it probes again.
C30_SearchOnlyAfterHealthyProbe ==
    [][retLive =>
       LET c == retLast'
       IN  /\ (RanRemoteSteps(c) /\ Searched(c)) =>
                  /\ c.ma /\ c.hOut = "healthy"
                  /\ c.res.calls[1] = "health" /\ ~InText("health", Tail(c.res.calls))
           /\ ProbedUnhealthy(c) =>
                  /\ c.res.calls = <<"health">>
                  /\ c.res.mcp_available /\ (c # retLast => mcp_available')
           /\ (ProbedUnhealthy(retLast) /\ RanRemoteSteps(c)) =>
                  /\ c.ma
                  /\ c.res.calls # <<>> /\ c.res.calls[1] = "health"]_vars

\* An events-only retrieval whose probe failed by exception: one call, the
\* probe, and the flag still True.
C30_Witness ==
    /\ retLast.op = "events" /\ retLast.ma /\ retLast.hOut = "probe_failed"
    /\ retLast.res.calls = <<"health">> /\ mcp_available

\* What a step did to session b: its in-memory log or its persisted record
\* is not what it was.
LogChanged(b) == bots'[chatbots[b]].messages # bots[chatbots[b]].messages
RecordChanged(b) == disk'[FilePath(b)] # disk[FilePath(b)]
\* The step belongs to a request of session a, or has the effect of a clear
\* of session a.
StepOf(a) ==
    \/ \E t \in Tasks : task[t].session = a /\ task'[t] # task[t]
    \/ task' = task /\ chatbots[a] # 0 /\ bots'[chatbots[a]].messages = <<>>

\* C31: a step of a turn (successful or failed) or a clear of one session
\* leaves the in-memory log and the persisted record of every other session
\* that has a handle as they were.
C31_SessionIsolation ==
    [][\A b \in SessionIds :
          (chatbots[b] # 0 /\ (LogChanged(b) \/ RecordChanged(b))) => StepOf(b)]_vars

\* C31 as it holds: the in-memory log of a session changes only in steps of
\* that session, and its persisted record only in steps of a session whose
\* id names the same file.
C31_IsolationPerFile ==
    [][\A b \in SessionIds :
          chatbots[b] # 0 =>
              /\ LogChanged(b) => StepOf(b)
              /\ RecordChanged(b) => \E a \in SessionIds : FilePath(a) = FilePath(b) /\ StepOf(a)]_vars

=============================================================================
